---- MODULE Spec2Model ----
(***************************************************************************)
(* scnlib: the typed scanners of include/scn/scn/types.h, the scanning API *)
(* of include/scn/scan/scan.h and the result selection of                  *)
(* include/scn/detail/result.h, as a state machine.                        *)
(*                                                                         *)
(* A source is the sequence of code units that are still to be read: the   *)
(* head of the sequence is the next unit read_char returns, and putback    *)
(* pushes a unit in front of it.  Code units are one-character strings;    *)
(* NUL is CharT(0), the value a value-initialised buffer holds.            *)
(***************************************************************************)
EXTENDS Integers, Sequences, FiniteSets, TLC

VARIABLES
    stream,     \* the code units of the source that are not consumed yet
    before,     \* the source as it was when the last call was entered
    call,       \* the last call: its name and its parameters
    err,        \* the error the last call returned (OK on success)
    outs,       \* the output arguments of the last call, in argument order
    container,  \* the container scan_list / scan_list_until push into
    given,      \* the words the input text was written from (input only)
    prev,       \* the error of the call before the last one
    ncalls      \* number of calls made on this source

vars == <<stream, before, call, err, outs, container, given, prev, ncalls>>

-----------------------------------------------------------------------------
(* Bounds of the model *)

\* width in bits of the scanned integer type T (8: signed char / unsigned char)
IntBits == 8

\* longest input drawn over the alphabet of the scan hooks
MaxHookLen == 3

\* scan hooks called on one source, each on what the previous one left
MaxHookCalls == 2

-----------------------------------------------------------------------------
(* Error kinds *)

OK == "ok"

end_of_stream == "end_of_range"

invalid_scanned_value == "invalid_scanned_value"

invalid_format_string == "invalid_format_string"

value_out_of_range == "value_out_of_range"

unrecoverable_stream_error == "unrecoverable_source_error"

\* not an error kind of the library: the call is rejected when it is compiled
ill_formed == "ill_formed"

-----------------------------------------------------------------------------
(* Code units and the locale *)

NUL == "NUL"

\* a unit of the source whose read fails with a stream error
BAD == "BAD"

DigitChars == <<"0", "1", "2", "3", "4", "5", "6", "7", "8", "9",
                "a", "b", "c", "d", "e", "f">>

is_space(ch) == ch \in {" ", "\n"}

thousands_separator == ","

decimal_point == "."

truename == <<"t", "r", "u", "e">>

falsename == <<"f", "a", "l", "s", "e">>

\* the digit value of ch, or -1 when ch is no digit character
DigitIndex(ch) ==
    IF \E i \in 1..Len(DigitChars) : DigitChars[i] = ch
    THEN (CHOOSE i \in 1..Len(DigitChars) : DigitChars[i] = ch) - 1
    ELSE -1

is_digit(ch, base, localized) ==
    DigitIndex(ch) >= 0 /\ DigitIndex(ch) < base

char_to_int(ch, base, localized) == DigitIndex(ch)

-----------------------------------------------------------------------------
(* The stream primitives *)

\* read_char: the next unit, consumed; or an error, nothing consumed
read_char(s) ==
    IF s = <<>> THEN [err |-> end_of_stream, value |-> NUL, stream |-> s]
    ELSE IF Head(s) = BAD
         THEN [err |-> unrecoverable_stream_error, value |-> NUL, stream |-> s]
         ELSE [err |-> OK, value |-> Head(s), stream |-> Tail(s)]

\* putback: ch becomes the next unit read
putback(s, ch) == <<ch>> \o s

\* the loop `for (i = buf.begin(); i != last; ++i) putback(*i)` over buf[1..n]
RECURSIVE putback_loop(_, _, _, _)
putback_loop(s, buf, i, n) ==
    IF i > n THEN s ELSE putback_loop(putback(s, buf[i]), buf, i + 1, n)

-----------------------------------------------------------------------------
(* Values *)

\* an output argument the call has not written
Unset == [set |-> FALSE, v |-> 0, e |-> 0, s |-> <<>>]

IntVal(n) == [set |-> TRUE, v |-> n, e |-> 0, s |-> <<>>]

BoolVal(b) == [set |-> TRUE, v |-> IF b THEN 1 ELSE 0, e |-> 0, s |-> <<>>]

\* mant * 10^(-e)
FloatVal(mant, e) == [set |-> TRUE, v |-> mant, e |-> e, s |-> <<>>]

SpanVal(s) == [set |-> TRUE, v |-> 0, e |-> 0, s |-> s]

\* what a scan hook returns: its error, what it wrote to val, the stream after it
Ret(e, val, s) == [err |-> e, val |-> val, stream |-> s]

\* `it - 1` with it == buf.begin(): the putback loop never meets its end and
\* runs over the buffer; the build may put back nothing or zeros of the buffer
UBOutcomes(s, e) ==
    { Ret(x, Unset, g \o s) :
        x \in {e, unrecoverable_stream_error}, g \in {<<>>, <<NUL>>} }

-----------------------------------------------------------------------------
(* The integer types *)

IntTypes == {"signed", "unsigned"}

TMin(T) == IF T = "signed" THEN -(2 ^ (IntBits - 1)) ELSE 0

TMax(T) == IF T = "signed" THEN 2 ^ (IntBits - 1) - 1 ELSE 2 ^ IntBits - 1

\* the value a T holds after x is stored in it
Narrow(T, x) ==
    IF T = "signed"
    THEN ((x + 2 ^ (IntBits - 1)) % (2 ^ IntBits)) - 2 ^ (IntBits - 1)
    ELSE x % (2 ^ IntBits)

RECURSIVE CountDigits(_)
CountDigits(i) == IF i = 0 THEN 0 ELSE 1 + CountDigits(i \div 10)

max_digits(T) ==
    IF T = "signed" THEN CountDigits(TMax(T)) + 1 ELSE CountDigits(TMax(T))

Zeros(n) == [i \in 1..n |-> NUL]

-----------------------------------------------------------------------------
(* basic_value_scanner<CharT, T>, T integral *)

\* a parse hook that takes every unknown type unit for decimal
IntegralParseAny(ch) ==
    IF ch = "}" THEN [err |-> OK, base |-> 10, localized |-> TRUE]
    ELSE IF ch = "d" THEN [err |-> OK, base |-> 10, localized |-> FALSE]
    ELSE IF ch = "x" THEN [err |-> OK, base |-> 16, localized |-> FALSE]
    ELSE IF ch = "b" THEN [err |-> OK, base |-> 2, localized |-> FALSE]
    ELSE IF ch = "o" THEN [err |-> OK, base |-> 8, localized |-> FALSE]
    ELSE [err |-> OK, base |-> 10, localized |-> FALSE]

\* parse: the base and the localized flag for the character after '{'
IntegralParse(ch) ==
    IF ch = "}" THEN [err |-> OK, base |-> 10, localized |-> TRUE]
    ELSE IF ch = "d" THEN [err |-> OK, base |-> 10, localized |-> FALSE]
    ELSE IF ch = "x" THEN [err |-> OK, base |-> 16, localized |-> FALSE]
    ELSE IF ch = "b" THEN [err |-> OK, base |-> 2, localized |-> FALSE]
    ELSE IF ch = "o" THEN [err |-> OK, base |-> 8, localized |-> FALSE]
    ELSE [err |-> invalid_format_string, base |-> 10, localized |-> FALSE]

\* the read loop: its error, the buffer, the stream and the position it stopped at
RECURSIVE IntegralRead(_, _, _)
IntegralRead(s, buf, it) ==
    IF it > Len(buf) THEN [err |-> OK, buf |-> buf, stream |-> s, it |-> it]
    ELSE LET ch == read_char(s) IN
         IF ch.err # OK
         THEN IF ch.err = end_of_stream
              THEN [err |-> OK, buf |-> buf, stream |-> s, it |-> it]
              ELSE [err |-> ch.err, buf |-> buf, stream |-> s, it |-> it]
         ELSE IF is_space(ch.value)
              THEN [err |-> OK, buf |-> buf, stream |-> ch.stream, it |-> it]
         ELSE IF thousands_separator = ch.value
              THEN IntegralRead(ch.stream, buf, it + 1)
         ELSE IntegralRead(ch.stream, [buf EXCEPT ![it] = ch.value], it + 1)

\* one step of the running total: tmp * base - digit, stored in a T
IntegralAccumulate(T, tmp, ch, base, localized) ==
    Narrow(T, tmp * base - char_to_int(ch, base, localized))

\* the lambda sign_tmp on the first unit of the buffer
IntegralSign(buf, T, base, localized) ==
    IF buf[1] = "-"
    THEN IF T = "unsigned"
         THEN [err |-> invalid_scanned_value, sign |-> TRUE, tmp |-> 0]
         ELSE [err |-> OK, sign |-> FALSE, tmp |-> 0]
    ELSE IF buf[1] = "+"
         THEN [err |-> OK, sign |-> TRUE, tmp |-> 0]
    ELSE IF is_digit(buf[1], base, localized)
         THEN [err |-> OK, sign |-> TRUE,
               tmp |-> IntegralAccumulate(T, 0, buf[1], base, localized)]
    ELSE [err |-> invalid_scanned_value, sign |-> TRUE, tmp |-> 0]

\* the digit loop from buf[it] on
RECURSIVE IntegralDigits(_, _, _, _, _, _)
IntegralDigits(buf, it, tmp, T, base, localized) ==
    IF it > Len(buf) THEN tmp
    ELSE IF is_digit(buf[it], base, localized)
         THEN IntegralDigits(buf, it + 1,
                  IntegralAccumulate(T, tmp, buf[it], base, localized),
                  T, base, localized)
         ELSE tmp

\* (mutation: the positive sign is taken for the negative one)
IntegralNegateInverted(T, sign, tmp) == IF sign THEN tmp ELSE Narrow(T, -tmp)

\* tmp = -tmp when the sign is positive
IntegralNegate(T, sign, tmp) == IF sign THEN Narrow(T, -tmp) ELSE tmp

\* (mutation: the value is stored before the first unit is looked at)
IntegralValueStoresFirst(buf, T, base, localized) ==
    LET sg == IntegralSign(buf, T, base, localized) IN
    IF sg.err # OK THEN [err |-> sg.err, val |-> IntVal(0)]
    ELSE [err |-> OK,
          val |-> IntVal(IntegralNegate(T, sg.sign,
                     IntegralDigits(buf, 2, sg.tmp, T, base, localized)))]

\* the value the scanner computes from the buffer, or its error
IntegralValue(buf, T, base, localized) ==
    LET sg == IntegralSign(buf, T, base, localized) IN
    IF sg.err # OK THEN [err |-> sg.err, val |-> Unset]
    ELSE [err |-> OK,
          val |-> IntVal(IntegralNegate(T, sg.sign,
                     IntegralDigits(buf, 2, sg.tmp, T, base, localized)))]

\* scan: the set of outcomes (one, unless the code's behaviour is undefined)
IntegralScan(s, T, base, localized) ==
    LET rd == IntegralRead(s, Zeros(max_digits(T) + 1), 1) IN
    IF rd.err # OK
    THEN IF rd.it = 1 THEN UBOutcomes(rd.stream, rd.err)
         ELSE {Ret(rd.err, Unset, putback_loop(rd.stream, rd.buf, 1, rd.it - 2))}
    ELSE LET r == IntegralValue(rd.buf, T, base, localized) IN
         {Ret(r.err, r.val, rd.stream)}

-----------------------------------------------------------------------------
(* basic_value_scanner<CharT, bool> *)

Max(a, b) == IF a >= b THEN a ELSE b

\* std::equal(buf.begin(), it + 1, name.begin()): the n units read so far
\* against the first n units of the name
PrefixEqual(buf, n, name) ==
    n <= Len(name) /\ \A i \in 1..n : buf[i] = name[i]

\* the name matching loop
RECURSIVE BoolNames(_, _, _)
BoolNames(s, buf, it) ==
    IF it > Len(buf) THEN Ret(invalid_scanned_value, Unset, s)
    ELSE LET ch == read_char(s) IN
         IF ch.err # OK
         THEN IF ch.err = end_of_stream
              THEN Ret(invalid_scanned_value, Unset, s)
              ELSE Ret(ch.err, Unset, putback_loop(s, buf, 1, it - 2))
         ELSE LET b == [buf EXCEPT ![it] = ch.value] IN
              IF PrefixEqual(b, it, falsename)
              THEN Ret(OK, BoolVal(FALSE), ch.stream)
              ELSE IF PrefixEqual(b, it, truename)
                   THEN Ret(OK, BoolVal(TRUE), ch.stream)
                   ELSE BoolNames(ch.stream, b, it + 1)

BoolScan(s) ==
    LET tmp == read_char(s) IN
    IF tmp.err # OK THEN {Ret(tmp.err, Unset, s)}
    ELSE IF tmp.value = "0" THEN {Ret(OK, BoolVal(FALSE), tmp.stream)}
    ELSE IF tmp.value = "1" THEN {Ret(OK, BoolVal(TRUE), tmp.stream)}
    ELSE LET max_len == Max(Len(truename), Len(falsename)) IN
         IF max_len < 1
         THEN {Ret(invalid_scanned_value, Unset, putback(tmp.stream, tmp.value))}
         ELSE {BoolNames(putback(tmp.stream, tmp.value), Zeros(max_len), 1)}

-----------------------------------------------------------------------------
(* basic_value_scanner<CharT, T>, T floating point *)

\* std::array<CharT, 64> buf
FloatBufSize == 64

\* the read loop: its error, the buffer, the stream and the position it stopped at
RECURSIVE FloatRead(_, _, _, _)
FloatRead(s, buf, it, point) ==
    IF it > Len(buf) THEN [err |-> OK, buf |-> buf, stream |-> s, it |-> it]
    ELSE LET tmp == read_char(s) IN
         IF tmp.err # OK
         THEN [err |-> tmp.err, buf |-> buf, stream |-> s, it |-> it]
         ELSE IF tmp.value = decimal_point
              THEN IF point
                   THEN [err |-> OK, buf |-> buf,
                         stream |-> putback(tmp.stream, tmp.value), it |-> it]
                   ELSE FloatRead(tmp.stream, [buf EXCEPT ![it] = tmp.value],
                                  it + 1, TRUE)
         ELSE IF ~is_digit(tmp.value, 10, FALSE)
              THEN [err |-> OK, buf |-> buf,
                    stream |-> putback(tmp.stream, tmp.value), it |-> it]
         ELSE FloatRead(tmp.stream, [buf EXCEPT ![it] = tmp.value], it + 1, point)

\* the units of buf before its first zero
RECURSIVE CString(_, _)
CString(buf, i) ==
    IF i > Len(buf) \/ buf[i] = NUL THEN <<>> ELSE <<buf[i]>> \o CString(buf, i + 1)

\* the digits of str as a number, the decimal point left out
RECURSIVE Mantissa(_, _)
Mantissa(str, acc) ==
    IF str = <<>> THEN acc
    ELSE IF Head(str) = decimal_point THEN Mantissa(Tail(str), acc)
         ELSE Mantissa(Tail(str), acc * 10 + DigitIndex(Head(str)))

\* number of digits of str after the decimal point
RECURSIVE Fraction(_)
Fraction(str) ==
    IF str = <<>> THEN 0
    ELSE IF Head(str) = decimal_point THEN Len(str) - 1 ELSE Fraction(Tail(str))

\* str_to_floating on digits with at most one decimal point: the number of
\* units converted (none when there is no digit) and the value
str_to_floating(str) ==
    IF \E i \in 1..Len(str) : str[i] # decimal_point
    THEN [end |-> Len(str), value |-> FloatVal(Mantissa(str, 0), Fraction(str))]
    ELSE [end |-> 0, value |-> FloatVal(0, 0)]

FloatScan(s) ==
    LET rd == FloatRead(s, Zeros(FloatBufSize), 1, FALSE) IN
    IF rd.err # OK
    THEN IF rd.it = 1 THEN UBOutcomes(rd.stream, rd.err)
         ELSE {Ret(rd.err, Unset, putback_loop(rd.stream, rd.buf, 1, rd.it - 2))}
    ELSE IF rd.buf[1] = NUL THEN {Ret(invalid_scanned_value, Unset, rd.stream)}
    ELSE LET str == CString(rd.buf, 1)
             cv == str_to_floating(str)
         IN IF Len(str) # cv.end
            THEN {Ret(invalid_scanned_value, Unset, rd.stream)}
            ELSE {Ret(OK, cv.value, rd.stream)}

-----------------------------------------------------------------------------
(* basic_value_scanner<CharT, span<CharT>> *)

\* the read loop: its error, the buffer, the stream and the position it stopped at
RECURSIVE SpanRead(_, _, _)
SpanRead(s, buf, it) ==
    IF it > Len(buf) THEN [err |-> OK, buf |-> buf, stream |-> s, it |-> it]
    ELSE LET ch == read_char(s) IN
         IF ch.err # OK
         THEN [err |-> ch.err, buf |-> buf, stream |-> s, it |-> it]
         ELSE IF is_space(ch.value)
              THEN [err |-> OK, buf |-> buf, stream |-> ch.stream, it |-> it]
         ELSE SpanRead(ch.stream, [buf EXCEPT ![it] = ch.value], it + 1)

\* scan into a span of `size` units
SpanScan(s, size) ==
    IF size = 0 THEN {Ret(OK, Unset, s)}
    ELSE LET rd == SpanRead(s, Zeros(size), 1) IN
         IF rd.err # OK
         THEN IF rd.it = 1 THEN UBOutcomes(rd.stream, rd.err)
              ELSE {Ret(rd.err, Unset,
                        putback_loop(rd.stream, rd.buf, 1, rd.it - 2))}
         ELSE {Ret(OK, SpanVal(rd.buf), rd.stream)}

-----------------------------------------------------------------------------
(* Inputs *)

\* the sequences over alphabet A of length at most n
Strs(A, n) == UNION { [1..k -> A] : k \in 0..n }

RECURSIVE NatText(_)
NatText(n) ==
    IF n < 10 THEN <<DigitChars[n + 1]>>
    ELSE NatText(n \div 10) \o <<DigitChars[(n % 10) + 1]>>

\* the base-10 text of n
DecimalText(n) == IF n < 0 THEN <<"-">> \o NatText(-n) ELSE NatText(n)

HookAlphabet == {"1", "2", "-", "+", " ", "x", ",", "."}

\* inputs whose last unit cannot be read
BadInputs == { p \o <<BAD>> : p \in Strs({"1", "2", ".", "x"}, MaxHookLen - 1) }

\* the boolean names, whole and cut short, and what may follow them
NameInputs ==
    UNION { { SubSeq(nm, 1, k) \o t : k \in 1..Len(nm), t \in Strs({"x", " "}, 1) } :
              nm \in {truename, falsename} }

\* inputs longer than the integer scanner's buffer
LongInputs ==
    { [i \in 1..k |-> "1"] \o tl :
        k \in {max_digits("unsigned") + 1, max_digits("signed") + 1},
        tl \in {<<>>, <<"2">>, <<" ", "2">>} }

\* numbers with an exponent, and what may follow them
ExponentInputs ==
    { m \o t : m \in {<<"1", "e", "2">>, <<"1", "E", "-", "2">>},
               t \in {<<>>, <<" ">>, <<"x">>} }

HookInputs ==
    Strs(HookAlphabet, MaxHookLen) \cup BadInputs \cup NameInputs
        \cup LongInputs \cup ExponentInputs

-----------------------------------------------------------------------------
(* Calls *)

\* name: the function called; T: the scanned type; body: the specifier's type
\* character; n: the size of the span; types, fmt: the arguments and the format
\* of scan; sep, until: those of scan_list; c0: the container before the call
NoCall ==
    [name |-> "none", T |-> "none", body |-> "}", n |-> 0, types |-> <<>>,
     fmt |-> <<>>, sep |-> NUL, until |-> NUL, c0 |-> <<>>]

HookCall(name, T, body, n) ==
    [NoCall EXCEPT !.name = name, !.T = T, !.body = body, !.n = n]

\* a container that holds nothing and takes nothing
NoContainer == [elems |-> <<>>, max_size |-> 0]

\* the state after a scan hook returned r to a call c made on the stream
Returned(c, r) ==
    /\ stream' = r.stream
    /\ before' = stream
    /\ call' = c
    /\ err' = r.err
    /\ outs' = <<r.val>>
    /\ prev' = err
    /\ ncalls' = ncalls + 1
    /\ UNCHANGED <<container, given>>

\* the units a specifier of an integer goes on with after its brace: the
\* closing brace, a base, or the flag ' of the thousands separator
IntBodies == {"}", "d", "x", "b", "o", "'"}

\* the integer scanner's parse hook on one of `bodies`, then its scan hook
\* unless the parse hook failed
HookIntegral(bodies) ==
    /\ ncalls < MaxHookCalls
    /\ \E T \in IntTypes, b \in bodies :
         LET p == IntegralParse(b) IN
         \E r \in (IF p.err # OK THEN {Ret(p.err, Unset, stream)}
                   ELSE IntegralScan(stream, T, p.base, p.localized)) :
             Returned(HookCall("integral", T, b, 1), r)

ScanHookIntegral == HookIntegral(IntBodies)

ScanHookDecimal == HookIntegral({"}", "d"})

ScanHookBool ==
    /\ ncalls < MaxHookCalls
    /\ \E r \in BoolScan(stream) : Returned(HookCall("bool", "none", "}", 1), r)

ScanHookFloat ==
    /\ ncalls < MaxHookCalls
    /\ \E r \in FloatScan(stream) : Returned(HookCall("floating", "none", "}", 1), r)

\* longest span scanned into
MaxSpan == 2

ScanHookSpan ==
    /\ ncalls < MaxHookCalls
    /\ \E size \in 0..MaxSpan :
         \E r \in SpanScan(stream, size) :
             Returned(HookCall("span", "none", "}", size), r)

-----------------------------------------------------------------------------
(* The scan hooks called on a source, one after another *)

InitHook ==
    /\ stream \in HookInputs
    /\ before = stream
    /\ call = NoCall
    /\ err = "none"
    /\ outs = <<>>
    /\ container = NoContainer
    /\ given = <<>>
    /\ prev = "none"
    /\ ncalls = 0

NextHook == ScanHookIntegral \/ ScanHookBool \/ ScanHookFloat \/ ScanHookSpan

SpecHook == InitHook /\ [][NextHook]_vars

-----------------------------------------------------------------------------
(* The integer scanner under every specifier, on short sources *)

MaxParseLen == 3

ParseAlphabet == {"1", "-", " "}

InitParse ==
    /\ stream \in Strs(ParseAlphabet, MaxParseLen)
    /\ before = stream
    /\ call = NoCall
    /\ err = "none"
    /\ outs = <<>>
    /\ container = NoContainer
    /\ given = <<>>
    /\ prev = "none"
    /\ ncalls = 0

NextParse == ScanHookIntegral

SpecParse == InitParse /\ [][NextParse]_vars

-----------------------------------------------------------------------------
(* The integer scanner on the decimal text of a number *)

\* how far beyond the range of T the numbers go
OverRange == 2

Tails == {<<>>, <<" ">>, <<" ", "7">>}

InitRoundTrip ==
    /\ \E n \in (TMin("signed") - OverRange)..(TMax("unsigned") + OverRange) :
       \E tl \in Tails :
           /\ given = <<n>>
           /\ stream = DecimalText(n) \o tl
    /\ before = stream
    /\ call = NoCall
    /\ err = "none"
    /\ outs = <<>>
    /\ container = NoContainer
    /\ prev = "none"
    /\ ncalls = 0

NextRoundTrip == ScanHookDecimal

SpecRoundTrip == InitRoundTrip /\ [][NextRoundTrip]_vars

-----------------------------------------------------------------------------
(* The dispatcher: visit, and scan on top of it *)

ArgTypes == {"signed", "unsigned", "bool", "floating"}

\* detail::empty_parser::parse on the character the parse context is at
EmptyParse(ch) == IF ch # "{" THEN invalid_format_string ELSE OK

\* the parse hook of the scanner of type ty on a specifier {body
ParseHook(ty, body) ==
    IF ty \in IntTypes THEN IntegralParse(body).err ELSE EmptyParse("{")

\* the scan hook of the scanner of type ty
ScanHook(ty, s, body) ==
    IF ty \in IntTypes
    THEN LET p == IntegralParse(body) IN IntegralScan(s, ty, p.base, p.localized)
    ELSE IF ty = "bool" THEN BoolScan(s) ELSE FloatScan(s)

\* the errors after which the source is restored to the rollback point
Recoverable(e) == e \in {invalid_scanned_value, end_of_stream}

\* the argument after a hook ran on it: a hook writes through the reference
Written(old, val) == IF val.set THEN val ELSE old

\* what the dispatcher returns
Visited(e, s, o) == [err |-> e, stream |-> s, outs |-> o]

\* the dispatcher from specifier k on: the rollback point is the source before
\* the specifier; the parse hook, then the scan hook; a failure returns at once
RECURSIVE visit(_, _, _, _, _)
visit(s, fmt, types, k, o) ==
    IF k > Len(fmt) THEN {Visited(OK, s, o)}
    ELSE IF k > Len(types) THEN {Visited(invalid_format_string, s, o)}
    ELSE IF ParseHook(types[k], fmt[k]) # OK
         THEN {Visited(ParseHook(types[k], fmt[k]), s, o)}
    ELSE UNION {
           LET w == [o EXCEPT ![k] = Written(o[k], r.val)] IN
           IF r.err = OK THEN visit(r.stream, fmt, types, k + 1, w)
           ELSE {Visited(r.err, IF Recoverable(r.err) THEN s ELSE r.stream, w)} :
           r \in ScanHook(types[k], s, fmt[k]) }

\* (mutation: the assertion accepts a call without arguments)
ScanWellFormedAlways(n) == n >= 0

\* static_assert(sizeof...(Args) > 0, "Have to scan at least a single argument")
ScanWellFormed(n) == n > 0

\* scan_boilerplate: wrap the range, make the arguments, vscan, wrap the result
scan_boilerplate(s, fmt, types) ==
    IF ~ScanWellFormed(Len(types)) THEN {Visited(ill_formed, s, <<>>)}
    ELSE visit(s, fmt, types, 1, [i \in 1..Len(types) |-> Unset])

\* most arguments of a scan call
MaxArgs == 2

\* scan calls on one source
MaxScanCalls == 1

\* the argument types of the calls of more than one value
ScanTypes == {"signed", "bool", "floating"}

ArgLists == UNION { [1..n -> ScanTypes] : n \in 0..MaxArgs }

\* the formats of at most n default specifiers
Formats(n) == { [i \in 1..k |-> "}"] : k \in 0..n }

\* scan(r, f, a...) on the leftover of the previous call
ScanCall ==
    /\ ncalls < MaxScanCalls
    /\ \E types \in ArgLists :
       \E fmt \in Formats(Len(types)) :
       \E r \in scan_boilerplate(stream, fmt, types) :
           /\ stream' = r.stream
           /\ before' = stream
           /\ call' = [NoCall EXCEPT !.name = "scan", !.types = types, !.fmt = fmt]
           /\ err' = r.err
           /\ outs' = r.outs
           /\ prev' = err
           /\ ncalls' = ncalls + 1
           /\ UNCHANGED <<container, given>>

\* most words of an input
MaxWords == 2

ScanWords == {<<"1", "2">>, <<"-", "7">>, <<"x">>, <<"1", ".", "5">>}

\* the words, one space between two of them
RECURSIVE Join(_)
Join(ws) ==
    IF ws = <<>> THEN <<>>
    ELSE IF Len(ws) = 1 THEN ws[1]
         ELSE ws[1] \o <<" ">> \o Join(Tail(ws))

InitScan ==
    /\ given \in UNION { [1..k -> ScanWords] : k \in 0..MaxWords }
    /\ stream = Join(given)
    /\ before = stream
    /\ call = NoCall
    /\ err = "none"
    /\ outs = <<>>
    /\ container = NoContainer
    /\ prev = "none"
    /\ ncalls = 0

NextScan == ScanCall

SpecScan == InitScan /\ [][NextScan]_vars

\* single-value scan calls chained on one source
MaxChainCalls == 3

\* most values of a chained input
MaxChainWords == 2

ChainWords == {<<"1", "2">>, <<"-", "7">>, <<"1">>, <<"x">>}

\* scan(r, f, a) or scan(r, f) on the leftover of the previous call
ScanValue ==
    /\ ncalls < MaxChainCalls
    /\ \E types \in UNION { [1..n -> ArgTypes] : n \in {0, 1} } :
       \E fmt \in Formats(Len(types)) :
       \E r \in scan_boilerplate(stream, fmt, types) :
           /\ stream' = r.stream
           /\ before' = stream
           /\ call' = [NoCall EXCEPT !.name = "scan", !.types = types, !.fmt = fmt]
           /\ err' = r.err
           /\ outs' = r.outs
           /\ prev' = err
           /\ ncalls' = ncalls + 1
           /\ UNCHANGED <<container, given>>

InitChain ==
    /\ given \in UNION { [1..k -> ChainWords] : k \in 0..MaxChainWords }
    /\ stream = Join(given)
    /\ before = stream
    /\ call = NoCall
    /\ err = "none"
    /\ outs = <<>>
    /\ container = NoContainer
    /\ prev = "none"
    /\ ncalls = 0

NextChain == ScanValue

SpecChain == InitChain /\ [][NextChain]_vars

-----------------------------------------------------------------------------
(* scan_list *)

\* detail::read_single for a code unit separator: read_code_unit, advancing
read_single(s) == read_char(s)

\* what scan_list returns, and the container it leaves
Listed(e, s, elems) == [err |-> e, stream |-> s, elems |-> elems]

\* c.push_back(value) after a visit that succeeded
ListVisited(v, elems) == IF v.err = OK THEN Append(elems, v.outs[1]) ELSE elems

\* the loop of scan_list from the test of the container's size on
RECURSIVE scan_list(_, _, _, _, _)
scan_list(s, elems, max_size, T, separator) ==
    IF Len(elems) = max_size THEN {Listed(OK, s, elems)}
    ELSE UNION {
           LET c == ListVisited(v, elems) IN
           IF v.err # OK
           THEN IF v.err = end_of_stream THEN {Listed(OK, v.stream, c)}
                ELSE {Listed(v.err, v.stream, c)}
           ELSE IF separator = NUL
                THEN scan_list(v.stream, c, max_size, T, separator)
           ELSE LET sep_ret == read_single(v.stream) IN
                IF sep_ret.err # OK
                THEN IF sep_ret.err = end_of_stream
                     THEN {Listed(OK, sep_ret.stream, c)}
                     ELSE {Listed(sep_ret.err, sep_ret.stream, c)}
                ELSE IF sep_ret.value = separator
                     THEN scan_list(sep_ret.stream, c, max_size, T, separator)
                     ELSE {Listed(OK, sep_ret.stream, c)} :
           v \in visit(s, <<"}">>, <<T>>, 1, <<Unset>>) }

\* scan_list calls chained on one source
MaxListCalls == 2

\* most values of a list input
MaxListWords == 2

\* largest max_size of a container
MaxListSize == 3

ListTypes == {"signed", "floating"}

Separators == {NUL, ",", ";"}

ListWords == {<<"1", "2">>, <<"-", "7">>, <<"1">>, <<"x">>}

\* what stands between two values of an input
Styles == {<<" ">>, <<",", " ">>, <<",">>}

\* the words with g between two of them
RECURSIVE Render(_, _)
Render(ws, g) ==
    IF ws = <<>> THEN <<>>
    ELSE IF Len(ws) = 1 THEN ws[1]
         ELSE ws[1] \o g \o Render(Tail(ws), g)

\* the containers a call is given: some elements, and room for some more
Containers ==
    { [elems |-> e, max_size |-> m] :
        e \in {<<>>, <<IntVal(5)>>}, m \in 0..MaxListSize }

\* scan_list(r, c, separator) on the leftover of the previous call
ScanList ==
    /\ ncalls < MaxListCalls
    /\ \E T \in ListTypes, separator \in Separators :
       \E r \in scan_list(stream, container.elems, container.max_size,
                          T, separator) :
           /\ stream' = r.stream
           /\ before' = stream
           /\ call' = [NoCall EXCEPT !.name = "scan_list", !.T = T,
                                     !.sep = separator, !.c0 = container.elems]
           /\ err' = r.err
           /\ outs' = <<>>
           /\ container' = [container EXCEPT !.elems = r.elems]
           /\ prev' = err
           /\ ncalls' = ncalls + 1
           /\ UNCHANGED given

InitList ==
    /\ given \in UNION { [1..k -> ListWords] : k \in 0..MaxListWords }
    /\ stream \in { Render(given, g) : g \in Styles }
    /\ before = stream
    /\ call = NoCall
    /\ err = "none"
    /\ outs = <<>>
    /\ container \in { c \in Containers : Len(c.elems) <= c.max_size }
    /\ prev = "none"
    /\ ncalls = 0

NextList == ScanList

SpecList == InitList /\ [][NextList]_vars

-----------------------------------------------------------------------------
(* scan_list_until *)

\* what the loop between two values leaves: an error to return, or the source
\* and whether the outer loop goes on
Between(e, s, scanning) == [err |-> e, stream |-> s, scanning |-> scanning]

\* the inner loop of scan_list_until: the next unit is looked at without being
\* consumed, and consumed by advance() when it is a space or the first separator
RECURSIVE UntilBetween(_, _, _, _)
UntilBetween(s, until, separator, sep_found) ==
    LET next == read_char(s) IN
    IF next.err # OK
    THEN IF next.err = end_of_stream THEN Between(OK, s, FALSE)
         ELSE Between(next.err, s, FALSE)
    ELSE IF next.value = until THEN Between(OK, s, FALSE)
    ELSE IF is_space(next.value)
         THEN UntilBetween(Tail(s), until, separator, sep_found)
    ELSE IF separator # NUL
         THEN IF next.value # separator \/ sep_found
              THEN Between(OK, s, TRUE)
              ELSE UntilBetween(Tail(s), until, separator, TRUE)
    ELSE Between(OK, s, TRUE)

\* the outer loop of scan_list_until from the test of the container's size on
RECURSIVE scan_list_until(_, _, _, _, _, _)
scan_list_until(s, elems, max_size, T, until, separator) ==
    IF Len(elems) = max_size THEN {Listed(OK, s, elems)}
    ELSE UNION {
           LET c == ListVisited(v, elems) IN
           IF v.err # OK
           THEN IF v.err = end_of_stream THEN {Listed(OK, v.stream, c)}
                ELSE {Listed(v.err, v.stream, c)}
           ELSE LET b == UntilBetween(v.stream, until, separator, FALSE) IN
                IF b.err # OK THEN {Listed(b.err, b.stream, c)}
                ELSE IF b.scanning
                     THEN scan_list_until(b.stream, c, max_size, T, until,
                                          separator)
                     ELSE {Listed(OK, b.stream, c)} :
           v \in visit(s, <<"}">>, <<T>>, 1, <<Unset>>) }

\* scan_list_until calls chained on one source
MaxUntilCalls == 2

\* most words of an input of scan_list_until
MaxUntilWords == 3

Untils == {";", "\n"}

UntilSeparators == {NUL, ","}

UntilWords ==
    {<<"1", "2">>, <<"-", "7">>, <<"x">>, <<";">>, <<",">>, <<"\n">>}

\* scan_list_until(r, c, until, separator) on the leftover of the previous call
ScanListUntil ==
    /\ ncalls < MaxUntilCalls
    /\ \E T \in ListTypes, until \in Untils, separator \in UntilSeparators :
       \E r \in scan_list_until(stream, container.elems, container.max_size,
                                T, until, separator) :
           /\ stream' = r.stream
           /\ before' = stream
           /\ call' = [NoCall EXCEPT !.name = "scan_list_until", !.T = T,
                                     !.sep = separator, !.until = until,
                                     !.c0 = container.elems]
           /\ err' = r.err
           /\ outs' = <<>>
           /\ container' = [container EXCEPT !.elems = r.elems]
           /\ prev' = err
           /\ ncalls' = ncalls + 1
           /\ UNCHANGED given

InitUntil ==
    /\ given \in UNION { [1..k -> UntilWords] : k \in 0..MaxUntilWords }
    /\ stream = Join(given)
    /\ before = stream
    /\ call = NoCall
    /\ err = "none"
    /\ outs = <<>>
    /\ container \in { c \in Containers : Len(c.elems) <= c.max_size }
    /\ prev = "none"
    /\ ncalls = 0

NextUntil == ScanListUntil

SpecUntil == InitUntil /\ [][NextUntil]_vars

-----------------------------------------------------------------------------
(* getline *)

\* the categories of a wrapped source: contiguous, or behind an erased iterator
Categories == {"contiguous", "erased"}

\* the index of the first unit of s that is the unit until, or Len(s) + 1
RECURSIVE FirstAt(_, _, _)
FirstAt(s, until, i) ==
    IF i > Len(s) \/ s[i] = until THEN i ELSE FirstAt(s, until, i + 1)

\* what a read of several units returns: its error, the units, the source after
ReadUnits(e, units, s) == [err |-> e, value |-> units, stream |-> s]

\* read_until_space_zero_copy(r, pred, true): on a contiguous source the view
\* up to and including the first unit pred accepts, the source advanced past
\* it; on another source an empty view and nothing read
read_until_space_zero_copy(s, until, category) ==
    IF category # "contiguous" THEN ReadUnits(OK, <<>>, s)
    ELSE IF s = <<>> THEN ReadUnits(end_of_stream, <<>>, s)
    ELSE LET i == FirstAt(s, until, 1)
             n == IF i > Len(s) THEN Len(s) ELSE i IN
         ReadUnits(OK, SubSeq(s, 1, n), SubSeq(s, n + 1, Len(s)))

\* (mutation: the unit pred accepts is consumed with the units before it)
read_until_space_consuming(s, until, keep_final_space) ==
    IF s = <<>> THEN ReadUnits(end_of_stream, <<>>, s)
    ELSE LET i == FirstAt(s, until, 1) IN
         IF i > Len(s) THEN ReadUnits(OK, s, <<>>)
         ELSE ReadUnits(OK,
                        SubSeq(s, 1, IF keep_final_space THEN i ELSE i - 1),
                        SubSeq(s, i + 1, Len(s)))

\* read_until_space(r, out, pred, keep_final_space): the units before the first
\* unit pred accepts are written and consumed; that unit is written when
\* keep_final_space, and stays the next unit of the source
read_until_space(s, until, keep_final_space) ==
    IF s = <<>> THEN ReadUnits(end_of_stream, <<>>, s)
    ELSE LET i == FirstAt(s, until, 1) IN
         IF i > Len(s) THEN ReadUnits(OK, s, <<>>)
         ELSE ReadUnits(OK,
                        SubSeq(s, 1, IF keep_final_space THEN i ELSE i - 1),
                        SubSeq(s, i, Len(s)))

\* r.advance(): past the next unit; the wrapper never exposes an iterator past
\* the end, so that an exhausted source stays exhausted
advance(s) == IF s # <<>> THEN Tail(s) ELSE s

\* (mutation: the delimiter is kept in the size)
LineSizeWithDelimiter(units, until) == Len(units)

\* the size of the line in the units read: --size (or pop_back) when the last
\* of them is the delimiter
LineSize(units, until) ==
    IF units[Len(units)] = until THEN Len(units) - 1 ELSE Len(units)

\* (mutation: the string is not cleared before the line is copied into it)
LineAppended(str, units, size) == str \o SubSeq(units, 1, size)

\* str.clear(); str.resize(size); std::copy(begin, begin + size, str.begin())
LineCopied(str, units, size) == SubSeq(units, 1, size)

\* what getline leaves: its error, the source, the string
Line(e, s, str) == [err |-> e, stream |-> s, str |-> str]

\* detail::getline_impl(r, str, until) for a std::string
getline_impl(s, str, until, category) ==
    LET z == read_until_space_zero_copy(s, until, category) IN
    IF z.err # OK THEN {Line(z.err, z.stream, str)}
    ELSE IF Len(z.value) # 0
         THEN {Line(OK, z.stream,
                    LineCopied(str, z.value, LineSize(z.value, until)))}
    ELSE LET e == read_until_space(s, until, TRUE) IN
         IF e.err # OK THEN {Line(e.err, e.stream, str)}
         ELSE {Line(OK, advance(e.stream),
                    SubSeq(e.value, 1, LineSize(e.value, until)))}

\* getline(r, str, until): on an error the source is reset to where it began
getline(s, str, until, category) ==
    { IF l.err # OK THEN Line(l.err, s, l.str) ELSE l :
      l \in getline_impl(s, str, until, category) }

\* getline calls chained on one source
MaxLineCalls == 3

\* most units of an input of getline
MaxLineLen == 3

LineAlphabet == {"a", "b", "\n", ";"}

Delimiters == {"\n", ";"}

\* what the string holds before a call
OldStrings == {<<>>, <<"z">>}

\* getline(r, str, until) on the leftover of the previous call
GetLine ==
    /\ ncalls < MaxLineCalls
    /\ \E category \in Categories, until \in Delimiters, str \in OldStrings :
       \E l \in getline(stream, str, until, category) :
           /\ stream' = l.stream
           /\ before' = stream
           /\ call' = [NoCall EXCEPT !.name = "getline", !.T = category,
                                     !.until = until, !.c0 = str]
           /\ err' = l.err
           /\ outs' = <<SpanVal(l.str)>>
           /\ prev' = err
           /\ ncalls' = ncalls + 1
           /\ UNCHANGED <<container, given>>

InitLine ==
    /\ stream \in Strs(LineAlphabet, MaxLineLen)
    /\ before = stream
    /\ call = NoCall
    /\ err = "none"
    /\ outs = <<>>
    /\ container = NoContainer
    /\ given = <<>>
    /\ prev = "none"
    /\ ncalls = 0

NextLine == GetLine

SpecLine == InitLine /\ [][NextLine]_vars

-----------------------------------------------------------------------------
(* scan and scan_localized under a process-wide locale *)

\* a unit that is a space in some locales only
NBSP == "nbsp"

\* the locales: "C" is the static profile, the default of a context
LocaleNames == {"C", "fi_FI"}

\* the callbacks of a locale: its spaces and its separators
Locale(name) ==
    IF name = "C"
    THEN [spaces |-> {" ", "\n"}, thousands |-> thousands_separator,
          decimal |-> decimal_point]
    ELSE [spaces |-> {" ", "\n", NBSP}, thousands |-> ".", decimal |-> ","]

\* (mutation: a context without a locale of its own takes the process's)
ContextLocaleGlobal(api, loc, global) ==
    IF api = "scan_localized" THEN loc ELSE global

\* the locale of the context: scan_boilerplate hands vscan no locale,
\* scan_boilerplate_localized hands vscan_localized make_locale_ref(loc)
ContextLocale(api, loc, global) ==
    IF api = "scan_localized" THEN loc ELSE "C"

\* the read loop of the integer scanner with the callbacks of ctx.locale()
RECURSIVE IntegralReadIn(_, _, _, _)
IntegralReadIn(loc, s, buf, it) ==
    IF it > Len(buf) THEN [err |-> OK, buf |-> buf, stream |-> s, it |-> it]
    ELSE LET ch == read_char(s) IN
         IF ch.err # OK
         THEN IF ch.err = end_of_stream
              THEN [err |-> OK, buf |-> buf, stream |-> s, it |-> it]
              ELSE [err |-> ch.err, buf |-> buf, stream |-> s, it |-> it]
         ELSE IF ch.value \in Locale(loc).spaces
              THEN [err |-> OK, buf |-> buf, stream |-> ch.stream, it |-> it]
         ELSE IF Locale(loc).thousands = ch.value
              THEN IntegralReadIn(loc, ch.stream, buf, it + 1)
         ELSE IntegralReadIn(loc, ch.stream, [buf EXCEPT ![it] = ch.value],
                             it + 1)

\* the scan hook of the integer scanner in a context whose locale is loc
IntegralScanIn(loc, s, T, base, localized) ==
    LET rd == IntegralReadIn(loc, s, Zeros(max_digits(T) + 1), 1) IN
    IF rd.err # OK
    THEN IF rd.it = 1 THEN UBOutcomes(rd.stream, rd.err)
         ELSE {Ret(rd.err, Unset, putback_loop(rd.stream, rd.buf, 1, rd.it - 2))}
    ELSE LET r == IntegralValue(rd.buf, T, base, localized) IN
         {Ret(r.err, r.val, rd.stream)}

\* the outcomes of scanning one integer of type T with the specifier {body
\* from s, through scan or scan_localized(loc, ..), the process's locale
\* being global
LocaleOutcomes(api, loc, global, s, T, body) ==
    LET p == IntegralParse(body) IN
    IF p.err # OK THEN {Ret(p.err, Unset, s)}
    ELSE IntegralScanIn(ContextLocale(api, loc, global), s, T, p.base,
                        p.localized)

MaxLocaleLen == 3

MaxLocaleCalls == 2

LocaleAlphabet == {"1", "-", ",", " ", NBSP}

\* the specifiers: the default, the decimal base, and a flag l
LocaleBodies == {"}", "d", "l"}

\* std::locale::global
SetGlobalLocale ==
    /\ \E g \in LocaleNames \ {given[1]} : given' = <<g>>
    /\ UNCHANGED <<stream, before, call, err, outs, container, prev, ncalls>>

\* the state after a scan returned r to the call c
LocaleReturned(c, r) ==
    /\ stream' = r.stream
    /\ before' = stream
    /\ call' = c
    /\ err' = r.err
    /\ outs' = <<r.val>>
    /\ prev' = err
    /\ ncalls' = ncalls + 1
    /\ UNCHANGED <<container, given>>

\* scan(stream, "{body", i)
ScanDefault ==
    /\ ncalls < MaxLocaleCalls
    /\ \E T \in IntTypes, b \in LocaleBodies :
       \E r \in LocaleOutcomes("scan", "C", given[1], stream, T, b) :
           LocaleReturned(HookCall("scan", T, b, 1), r)

\* scan_localized(loc, stream, "{body", i)
ScanLocalized ==
    /\ ncalls < MaxLocaleCalls
    /\ \E T \in IntTypes, b \in LocaleBodies, loc \in LocaleNames :
       \E r \in LocaleOutcomes("scan_localized", loc, given[1], stream, T, b) :
           LocaleReturned([HookCall("scan_localized", T, b, 1)
                               EXCEPT !.sep = loc], r)

InitLocale ==
    /\ stream \in Strs(LocaleAlphabet, MaxLocaleLen)
    /\ before = stream
    /\ call = NoCall
    /\ err = "none"
    /\ outs = <<>>
    /\ container = NoContainer
    /\ given \in {<<g>> : g \in LocaleNames}
    /\ prev = "none"
    /\ ncalls = 0

NextLocale == SetGlobalLocale \/ ScanDefault \/ ScanLocalized

SpecLocale == InitLocale /\ [][NextLocale]_vars

-----------------------------------------------------------------------------
(* input and prompt: scans of the process-wide stdin range *)

\* `given` is the log of what the calls did, oldest first: "prompt" and "input"
\* are the entries into the functions, "put_stdout", "scan" and "sync" their
\* statements, "return" the return of input. `stream` is stdin_range<CharT>().

MaxInputCalls == 2

MaxInputWords == 2

\* the statement the log ends with; "return" before the first call
LastStep == IF given = <<>> THEN "return" ELSE given[Len(given)]

Logged(step) == given' = Append(given, step)

\* (mutation: the range is synchronised after a successful scan only)
AfterScanOnSuccess(e) == IF e = OK THEN "sync" ELSE "return"

\* the statement of input that follows scan_boilerplate returning e
AfterScan(e) == "sync"

\* the statement of input that is run next, once the scan is done
InputNext ==
    IF LastStep = "scan" THEN AfterScan(err)
    ELSE IF LastStep = "sync" THEN "return" ELSE "none"

\* a call of input(f, a): control is at auto& range = stdin_range<CharT>()
CallInput ==
    /\ LastStep \in {"return", "put_stdout"}
    /\ LastStep = "return" => ncalls < MaxInputCalls
    /\ \E T \in ScanTypes :
         call' = [NoCall EXCEPT
                     !.name = IF LastStep = "put_stdout" THEN "prompt" ELSE "input",
                     !.types = <<T>>, !.fmt = <<"}">>]
    /\ Logged("input")
    /\ UNCHANGED <<stream, before, err, outs, container, prev, ncalls>>

\* a call of prompt(p, f, a) with p != nullptr
CallPrompt ==
    /\ LastStep = "return"
    /\ ncalls < MaxInputCalls
    /\ call' = [NoCall EXCEPT !.name = "prompt"]
    /\ Logged("prompt")
    /\ UNCHANGED <<stream, before, err, outs, container, prev, ncalls>>

\* detail::put_stdout(p)
PutStdout ==
    /\ LastStep = "prompt"
    /\ Logged("put_stdout")
    /\ UNCHANGED <<stream, before, call, err, outs, container, prev, ncalls>>

\* auto ret = detail::scan_boilerplate(range, f, a...)
InputScan ==
    /\ LastStep = "input"
    /\ \E r \in scan_boilerplate(stream, call.fmt, call.types) :
         /\ stream' = r.stream
         /\ before' = stream
         /\ err' = r.err
         /\ outs' = r.outs
         /\ prev' = err
    /\ Logged("scan")
    /\ UNCHANGED <<call, container, ncalls>>

\* range.sync()
InputSync ==
    /\ InputNext = "sync"
    /\ Logged("sync")
    /\ UNCHANGED <<stream, before, call, err, outs, container, prev, ncalls>>

\* return ret
InputReturn ==
    /\ InputNext = "return"
    /\ Logged("return")
    /\ ncalls' = ncalls + 1
    /\ UNCHANGED <<stream, before, call, err, outs, container, prev>>

InitInput ==
    /\ \E ws \in UNION { [1..k -> ScanWords] : k \in 0..MaxInputWords } :
         stream = Join(ws)
    /\ before = stream
    /\ call = NoCall
    /\ err = "none"
    /\ outs = <<>>
    /\ container = NoContainer
    /\ given = <<>>
    /\ prev = "none"
    /\ ncalls = 0

NextInput ==
    CallInput \/ CallPrompt \/ PutStdout \/ InputScan \/ InputSync \/ InputReturn

SpecInput == InitInput /\ [][NextInput]_vars

-----------------------------------------------------------------------------
(* The read primitives, called one after another on a wrapped source *)

invalid_encoding == "invalid_encoding"

\* a code unit that cannot begin a code point
CONT == "cont"

\* read_code_point(r, buf): the code point the next unit encodes, that unit
\* consumed; the units of the sources here are code points of one unit
read_code_point(s) ==
    LET ch == read_char(s) IN
    IF ch.err # OK THEN ReadUnits(ch.err, <<>>, s)
    ELSE IF ch.value = CONT THEN ReadUnits(invalid_encoding, <<>>, s)
    ELSE ReadUnits(OK, <<ch.value>>, ch.stream)

\* read_all_zero_copy(r): on a contiguous source the view of all that is left,
\* the source advanced to its end; on another source an empty view, nothing read
read_all_zero_copy(s, category) ==
    IF s = <<>> THEN ReadUnits(end_of_stream, <<>>, s)
    ELSE IF category # "contiguous" THEN ReadUnits(OK, <<>>, s)
    ELSE ReadUnits(OK, s, <<>>)

MaxReadLen == 4

MaxReads == 3

ReadAlphabet == {"1", "f", " ", CONT}

\* `given` is the log of the reads: the primitive, its keep_final_space, its
\* error and the units it returned; call.c0 is the source as it was wrapped,
\* call.T its category

\* the state after the primitive name returned r
ReadDone(name, keep, r) ==
    /\ stream' = r.stream
    /\ before' = stream
    /\ call' = [call EXCEPT !.name = name]
    /\ err' = r.err
    /\ outs' = <<SpanVal(r.value)>>
    /\ given' = Append(given, [name |-> name, keep |-> keep, err |-> r.err,
                               value |-> r.value])
    /\ prev' = err
    /\ ncalls' = ncalls + 1
    /\ UNCHANGED container

\* read_until_space(wrapped, it, is_space, keep_final_space)
ReadUntilSpace ==
    /\ ncalls < MaxReads
    /\ \E keep \in BOOLEAN :
         ReadDone("read_until_space", keep, read_until_space(stream, " ", keep))

\* read_code_point(wrapped, make_span(buf, 4))
ReadCodePoint ==
    /\ ncalls < MaxReads
    /\ ReadDone("read_code_point", FALSE, read_code_point(stream))

\* read_all_zero_copy(wrapped)
ReadAllZeroCopy ==
    /\ ncalls < MaxReads
    /\ ReadDone("read_all_zero_copy", FALSE, read_all_zero_copy(stream, call.T))

InitRead ==
    /\ stream \in Strs(ReadAlphabet, MaxReadLen)
    /\ before = stream
    /\ \E c \in Categories : call = [NoCall EXCEPT !.T = c, !.c0 = stream]
    /\ err = "none"
    /\ outs = <<>>
    /\ container = NoContainer
    /\ given = <<>>
    /\ prev = "none"
    /\ ncalls = 0

NextRead == ReadUntilSpace \/ ReadCodePoint \/ ReadAllZeroCopy

SpecRead == InitRead /\ [][NextRead]_vars

-----------------------------------------------------------------------------
(* wrap_result: the result of a scan and the leftover it holds *)

\* the input range types the overloads of _wrap_result::fn::impl tell apart
InputTypes ==
    {"string&&", "string&", "array&", "string_view", "string-like view",
     "erased_view", "erased_range&", "erased_range&&", "range"}

\* the errors a scan hands to wrap_result
ResultErrors ==
    {OK, end_of_stream, invalid_scanned_value, invalid_format_string}

Rep(kind, storage) == [kind |-> kind, storage |-> storage]

\* (mutation: a failed scan of an owned string returns a view)
RepresentationByError(e, input) ==
    IF input = "string&&"
    THEN IF e = OK THEN Rep("non_reconstructed", "string")
         ELSE Rep("non_reconstructed", "for_view")
    ELSE IF input = "string&" THEN Rep("non_reconstructed", "for_view")
    ELSE IF input = "array&" THEN Rep("reconstructed", "for_view")
    ELSE IF input \in {"string_view", "string-like view"}
         THEN Rep("non_reconstructed", "for_view")
    ELSE IF input = "erased_view" THEN Rep("reconstructed", "for_view")
    ELSE IF input = "erased_range&" THEN Rep("non_reconstructed", "for_view")
    ELSE Rep("non_reconstructed", "erased")

\* the overload of impl chosen for an error e and an input range type: the
\* class of the result and the storage of its leftover. The overload commented
\* "Input = string_view" takes a basic_string_view where the others take a
\* range_tag, so that a string_view goes with the string-like views.
Representation(e, input) ==
    IF input = "string&&" THEN Rep("non_reconstructed", "string")
    ELSE IF input = "string&" THEN Rep("non_reconstructed", "for_view")
    ELSE IF input = "array&" THEN Rep("reconstructed", "for_view")
    ELSE IF input \in {"string_view", "string-like view"}
         THEN Rep("non_reconstructed", "for_view")
    ELSE IF input = "erased_view" THEN Rep("reconstructed", "for_view")
    ELSE IF input = "erased_range&" THEN Rep("non_reconstructed", "for_view")
    ELSE Rep("non_reconstructed", "erased")

\* (mutation: the size of the leftover is taken for the offset)
size_diff_of_result(prepared, result) == Len(result)

\* const auto size_diff = prepared.size() - result.size()
size_diff(prepared, result) == Len(prepared) - Len(result)

\* the result object: its error, its class, its storage, the range the storage
\* holds and the offset of the storage's begin in that range
WrapResult(e, input, prepared, result) ==
    LET rep == Representation(e, input) IN
    [err |-> e, kind |-> rep.kind, storage |-> rep.storage,
     range |-> IF rep.storage = "string" THEN prepared ELSE result,
     begin |-> IF rep.storage = "string" THEN size_diff(prepared, result)
               ELSE 0]

\* get_range of the storage: the leftover
get_range(res) == SubSeq(res.range, res.begin + 1, Len(res.range))

MaxResultLen == 3

MaxResultCalls == 1

ResultAlphabet == {"1", " "}

\* a scan of an input of type T took the first k units of the source and
\* returned e; `container` is the result object, `stream` the units left
WrapScan ==
    /\ ncalls < MaxResultCalls
    /\ \E T \in InputTypes, e \in ResultErrors, k \in 0..Len(stream) :
         LET result == SubSeq(stream, k + 1, Len(stream)) IN
         /\ container' = WrapResult(e, T, stream, result)
         /\ call' = [NoCall EXCEPT !.name = "scan", !.T = T, !.n = k]
         /\ err' = e
         /\ stream' = result
    /\ before' = stream
    /\ prev' = err
    /\ ncalls' = ncalls + 1
    /\ UNCHANGED <<outs, given>>

InitResult ==
    /\ stream \in Strs(ResultAlphabet, MaxResultLen)
    /\ before = stream
    /\ call = NoCall
    /\ err = "none"
    /\ outs = <<>>
    /\ container = NoContainer
    /\ given = <<>>
    /\ prev = "none"
    /\ ncalls = 0

NextResult == WrapScan

SpecResult == InitResult /\ [][NextResult]_vars

-----------------------------------------------------------------------------
(* scan_list and scan_list_until, statement by statement *)

\* `given` holds the locals of the running call: where control is, and
\* sep_found. Control is "idle" between two calls, at the "head" of the outer
\* loop, before the "visit", before the "push", before the read of the
\* "separator" (scan_list), or in the inner loop "between" two values
\* (scan_list_until). `before` is the source when the outer iteration began.

At(where) == given[1] = where

sep_found == given[2] = "sep_found"

Control(where, found) ==
    given' = <<where, IF found THEN "sep_found" ELSE "no_sep">>

\* the value types of the containers: value_type value; is a span of no unit
LoopTypes == {"signed", "floating", "span"}

\* visit(ctx, pctx, cargs) on the one argument `value`
ListVisit(s, T) ==
    IF T = "span"
    THEN { Visited(r.err, r.stream, <<r.val>>) : r \in SpanScan(s, 0) }
    ELSE visit(s, <<"}">>, <<T>>, 1, <<Unset>>)

\* (mutation: the loop goes on until the container is more than full)
ContainerOverFull(c) == Len(c.elems) > c.max_size

\* c.size() == c.max_size()
ContainerFull(c) == Len(c.elems) = c.max_size

\* c.push_back(value): SCN_EXPECT(n < max_size()); m_span[n] = val; ++n. With
\* the precondition violated the write is out of bounds: the build may abort
\* at the expectation or count the value
push_back(c, val) ==
    IF Len(c.elems) < c.max_size
    THEN {[c EXCEPT !.elems = Append(c.elems, val)]}
    ELSE {c, [c EXCEPT !.elems = Append(c.elems, val)]}

MaxLoopCalls == 1

MaxLoopWords == 2

MaxLoopSize == 2

\* the statement that returns e ends the call
LoopReturn(e, s) ==
    /\ err' = e
    /\ stream' = s
    /\ prev' = err
    /\ ncalls' = ncalls + 1
    /\ Control("idle", FALSE)

\* scan_list(r, c, separator): up to the loop
CallScanList ==
    /\ At("idle")
    /\ ncalls < MaxLoopCalls
    /\ \E T \in LoopTypes, separator \in UntilSeparators :
         call' = [NoCall EXCEPT !.name = "scan_list", !.T = T,
                                !.sep = separator, !.c0 = container.elems]
    /\ before' = stream
    /\ Control("head", FALSE)
    /\ UNCHANGED <<stream, err, outs, container, prev, ncalls>>

\* scan_list_until(r, c, until, separator): up to the loop
CallScanListUntil ==
    /\ At("idle")
    /\ ncalls < MaxLoopCalls
    /\ \E T \in LoopTypes, until \in Untils, separator \in UntilSeparators :
         call' = [NoCall EXCEPT !.name = "scan_list_until", !.T = T,
                                !.sep = separator, !.until = until,
                                !.c0 = container.elems]
    /\ before' = stream
    /\ Control("head", FALSE)
    /\ UNCHANGED <<stream, err, outs, container, prev, ncalls>>

\* if (c.size() == c.max_size()) break;
LoopHead ==
    /\ At("head")
    /\ IF ContainerFull(container)
       THEN LoopReturn(OK, stream) /\ UNCHANGED before
       ELSE /\ Control("visit", FALSE)
            /\ before' = stream
            /\ UNCHANGED <<stream, err, prev, ncalls>>
    /\ UNCHANGED <<call, outs, container>>

\* auto err = visit(ctx, pctx, cargs); if (!err) ...
LoopVisit ==
    /\ At("visit")
    /\ \E v \in ListVisit(stream, call.T) :
         IF v.err # OK
         THEN /\ LoopReturn(IF v.err = end_of_stream THEN OK ELSE v.err,
                            v.stream)
              /\ UNCHANGED outs
         ELSE /\ Control("push", FALSE)
              /\ stream' = v.stream
              /\ outs' = v.outs
              /\ UNCHANGED <<err, prev, ncalls>>
    /\ UNCHANGED <<before, call, container>>

\* c.push_back(SCN_MOVE(value));
LoopPush ==
    /\ At("push")
    /\ container' \in push_back(container, outs[1])
    /\ IF call.name = "scan_list_until" THEN Control("between", FALSE)
       ELSE IF call.sep # NUL THEN Control("separator", FALSE)
       ELSE Control("head", FALSE)
    /\ UNCHANGED <<stream, before, call, err, outs, prev, ncalls>>

\* if (separator != 0) { auto sep_ret = detail::read_single(...); ... }
ListSeparator ==
    /\ At("separator")
    /\ LET sep_ret == read_single(stream) IN
       IF sep_ret.err # OK
       THEN LoopReturn(IF sep_ret.err = end_of_stream THEN OK ELSE sep_ret.err,
                       sep_ret.stream)
       ELSE IF sep_ret.value = call.sep
            THEN /\ Control("head", FALSE)
                 /\ stream' = sep_ret.stream
                 /\ UNCHANGED <<err, prev, ncalls>>
            ELSE LoopReturn(OK, sep_ret.stream)
    /\ UNCHANGED <<before, call, outs, container>>

\* one iteration of the inner loop of scan_list_until
UntilNext ==
    /\ At("between")
    /\ LET next == read_char(stream) IN
       IF next.err # OK
       THEN LoopReturn(IF next.err = end_of_stream THEN OK ELSE next.err, stream)
       ELSE IF next.value = call.until THEN LoopReturn(OK, stream)
       ELSE IF is_space(next.value)
            THEN /\ stream' = advance(stream)
                 /\ Control("between", sep_found)
                 /\ UNCHANGED <<err, prev, ncalls>>
       ELSE IF call.sep # NUL /\ ~(next.value # call.sep \/ sep_found)
            THEN /\ stream' = advance(stream)
                 /\ Control("between", TRUE)
                 /\ UNCHANGED <<err, prev, ncalls>>
       ELSE /\ Control("head", FALSE)
            /\ UNCHANGED <<stream, err, prev, ncalls>>
    /\ UNCHANGED <<before, call, outs, container>>

InitLoop ==
    /\ \E ws \in UNION { [1..k -> UntilWords] : k \in 0..MaxLoopWords } :
         stream = Join(ws)
    /\ before = stream
    /\ call = NoCall
    /\ err = "none"
    /\ outs = <<>>
    /\ container \in { [elems |-> e, max_size |-> m] :
                         e \in {<<>>, <<IntVal(5)>>}, m \in 0..MaxLoopSize }
    /\ Len(container.elems) <= container.max_size
    /\ given = <<"idle", "no_sep">>
    /\ prev = "none"
    /\ ncalls = 0

NextLoop ==
    \/ CallScanList
    \/ CallScanListUntil
    \/ LoopHead
    \/ LoopVisit
    \/ LoopPush
    \/ ListSeparator
    \/ UntilNext

SpecLoop == InitLoop /\ [][NextLoop]_vars

-----------------------------------------------------------------------------
(* Reading an input text, independently of the scanners *)

DecimalDigits == {DigitChars[i] : i \in 1..10}

\* number of leading base-10 digits of s
RECURSIVE DigitsLen(_)
DigitsLen(s) ==
    IF s # <<>> /\ Head(s) \in DecimalDigits THEN 1 + DigitsLen(Tail(s)) ELSE 0

\* the number a run of base-10 digits writes
RECURSIVE DigitsValue(_, _)
DigitsValue(s, acc) ==
    IF s = <<>> THEN acc ELSE DigitsValue(Tail(s), acc * 10 + DigitIndex(Head(s)))

\* every unit of s can be read
Readable(s) == \A i \in 1..Len(s) : s[i] \notin {BAD, NUL}

Hooks == {"integral", "bool", "floating", "span"}

DecimalBodies == {"}", "d"}

\* s is the base-10 text of a number a T holds
IsIntegerText(s, T) == \E n \in TMin(T)..TMax(T) : s = DecimalText(n)

\* s is digits with at most one decimal point among them
IsFloatText(s) ==
    /\ \E i \in 1..Len(s) : s[i] \in DecimalDigits
    /\ \A i \in 1..Len(s) : s[i] \in DecimalDigits \cup {decimal_point}
    /\ Cardinality({i \in 1..Len(s) : s[i] = decimal_point}) <= 1

IsBoolText(s) == s \in {<<"0">>, <<"1">>}

-----------------------------------------------------------------------------
(* Claims *)

\* C1: whenever a typed scanner (integer, float, bool, span) fails with a
\* recoverable error (invalid_scanned_value or end_of_range), the source is
\* exactly as it was before the scanner was called: nothing it read stays
\* consumed and the units are in their original order.
C1_RollbackOnFailure ==
    (call.name \in Hooks /\ err \in {invalid_scanned_value, end_of_stream})
        => stream = before

\* C3: when the text of an integer, float or bool value extends exactly to
\* the end of the input, the scanner returns ok, has assigned the value and
\* leaves an empty source; the end of the source is not reported as an error.
C3_ValueAtEndIsOk ==
    (\/ call.name = "integral" /\ call.body \in DecimalBodies
                               /\ IsIntegerText(before, call.T)
     \/ call.name = "floating" /\ IsFloatText(before)
     \/ call.name = "bool" /\ IsBoolText(before))
        => (err = OK /\ outs[1].set /\ stream = <<>>)

\* C6: for every n the integer type T holds (min(T), max(T), 0 and, for an
\* unsigned T, the values above the signed maximum included), scanning the
\* base-10 text of n with the integer scanner returns ok and stores exactly n.
C6_IntegerRoundTrip ==
    (call.name = "integral" /\ ncalls = 1
        /\ given[1] \in TMin(call.T)..TMax(call.T))
        => (err = OK /\ outs[1] = IntVal(given[1]))

\* C6 witness: the text of min(T) of the signed type was scanned and stored.
C6_Witness ==
    /\ call.name = "integral" /\ ncalls = 1 /\ call.T = "signed"
    /\ given = <<TMin("signed")>>
    /\ before = DecimalText(TMin("signed"))
    /\ err = OK
    /\ outs[1].set /\ outs[1].v = TMin("signed")

\* C7: for a signed T, scanning the text of min(T) succeeds with min(T), and
\* scanning the text of min(T)-1 or of max(T)+1 fails with value_out_of_range
\* and leaves the output argument unassigned: no wrapped value is stored.
C7_OverflowBoundary ==
    (call.name = "integral" /\ ncalls = 1 /\ call.T = "signed")
        => /\ given[1] = TMin("signed")
                => (err = OK /\ outs[1] = IntVal(TMin("signed")))
           /\ given[1] \in {TMin("signed") - 1, TMax("signed") + 1}
                => (err = value_out_of_range /\ outs[1] = Unset)

\* C8: on an input of base-10 digits followed by a code unit c that is neither
\* a digit nor a space, the integer scanner returns ok with the value of the
\* digits and the leftover begins at c: c is not consumed.
C8_StopsAtNonDigit ==
    LET k == DigitsLen(before) IN
    (/\ call.name = "integral" /\ call.body \in DecimalBodies
     /\ k >= 1 /\ k < Len(before)
     /\ Readable(before) /\ ~is_space(before[k + 1])
     /\ DigitsValue(SubSeq(before, 1, k), 0) <= TMax(call.T))
        => /\ err = OK
           /\ outs[1] = IntVal(DigitsValue(SubSeq(before, 1, k), 0))
           /\ stream = SubSeq(before, k + 1, Len(before))

\* the number the base-10 text s writes
NumberOf(s, T) == CHOOSE n \in TMin(T)..TMax(T) : s = DecimalText(n)

\* the first j arguments are integers and the first j words of the input are
\* texts of such integers, the call being the first on the input
AlignedIntegers(j) ==
    /\ ncalls = 1
    /\ j <= Len(given)
    /\ j <= Len(call.types)
    /\ \A i \in 1..j : /\ call.types[i] \in IntTypes
                       /\ IsIntegerText(given[i], call.types[i])

\* C2: within one scan call the arguments are assigned in specifier order: when
\* the call fails at specifier k the arguments before k hold their scanned
\* values and the arguments from k on are as they were before the call; when it
\* succeeds every argument that has a specifier holds its value.
C2_ArgumentsInOrder ==
    (call.name = "scan" /\ err # ill_formed) =>
        \E k \in 0..Len(call.types) :
            /\ \A j \in 1..k : outs[j].set
            /\ \A j \in (k + 1)..Len(call.types) : outs[j] = Unset
            /\ (err = OK => k = Len(call.fmt))
            /\ (err # OK => k < Len(call.fmt))
            /\ \A j \in 1..k :
                   AlignedIntegers(j) =>
                       outs[j] = IntVal(NumberOf(given[j], call.types[j]))

\* a call of two specifiers failed at the second, the first argument assigned
\* with the first word's value and the second untouched
C2_Witness ==
    /\ call.name = "scan"
    /\ Len(call.fmt) = 2
    /\ err = invalid_scanned_value
    /\ AlignedIntegers(1)
    /\ outs[1] = IntVal(NumberOf(given[1], call.types[1]))
    /\ outs[2] = Unset

\* the input from its j-th word on
Remaining(j) == Join(SubSeq(given, j, Len(given)))

\* the call scanned one int with the default specifier
SingleInt ==
    /\ call.name = "scan"
    /\ call.types = <<"signed">>
    /\ call.fmt = <<"}">>

\* C4: on an input of k values separated by whitespace, each single-value scan
\* run on the leftover of the one before succeeds with the next value of the
\* input, and the scan run on the exhausted leftover fails with end_of_range.
C4_SuccessiveScans ==
    (/\ SingleInt
     /\ Len(given) >= 1
     /\ \A i \in 1..Len(given) : IsIntegerText(given[i], "signed")) =>
        \A j \in 1..(Len(given) + 1) :
            before = Remaining(j) =>
                IF j <= Len(given)
                THEN /\ err = OK
                     /\ outs[1] = IntVal(NumberOf(given[j], "signed"))
                     /\ stream = Remaining(j + 1)
                ELSE err = end_of_stream

\* C5: after a scan that succeeded, scanning its leftover with the empty format
\* and no arguments returns ok and consumes nothing.
C5_EmptyFormatNoArguments ==
    (/\ call.name = "scan"
     /\ prev = OK
     /\ call.fmt = <<>>
     /\ call.types = <<>>) =>
        (err = OK /\ stream = before)

\* C5, amended: after a scan that succeeded, scanning its leftover with the
\* empty format and one argument returns ok, consumes nothing and leaves the
\* argument as it was; a call without arguments is ill-formed.
C5_EmptyFormatOneArgument ==
    (/\ call.name = "scan"
     /\ prev = OK
     /\ call.fmt = <<>>) =>
        IF call.types = <<>>
        THEN err = ill_formed /\ stream = before
        ELSE err = OK /\ stream = before /\ outs = <<Unset>>

\* a scan with the empty format and one argument, after a scan that succeeded
\* and left units in the source
C5_Witness ==
    /\ call.name = "scan"
    /\ prev = OK
    /\ call.fmt = <<>>
    /\ Len(call.types) = 1
    /\ before # <<>>
    /\ err = OK
    /\ stream = before

\* C9: scan_list returns no error when its loop ends because the container is
\* full, because the source is exhausted where a value or the separator is to
\* be read, or because another unit than the separator follows a value: on a
\* source every unit of which can be read, an error leaves the container with
\* room and the source, restored to where the failed value began, not exhausted.
C9_ListEndsWithoutError ==
    (/\ call.name = "scan_list"
     /\ call.T = "signed"
     /\ Readable(before)
     /\ err # OK) =>
        (stream # <<>> /\ Len(container.elems) < container.max_size)

\* the values the words write
Numbers(ws) == [j \in 1..Len(ws) |-> IntVal(NumberOf(ws[j], "signed"))]

\* the smaller of two numbers
Min(a, b) == IF a <= b THEN a ELSE b

\* the call read ints from the whole input, its values separated by whitespace
\* (no separator) or by the separator followed by whitespace
ListOfIntegers ==
    /\ call.name = "scan_list"
    /\ call.T = "signed"
    /\ \A i \in 1..Len(given) : IsIntegerText(given[i], "signed")
    /\ \/ call.sep = NUL /\ before = Render(given, <<" ">>)
       \/ call.sep = "," /\ before = Render(given, <<",", " ">>)

\* C10: on an input of n values separated by whitespace, or by the separator
\* followed by whitespace, scan_list appends the first min(n, max_size - size)
\* values in input order, and the leftover is empty when all n were read.
C10_ListAppendsValues ==
    ListOfIntegers =>
        LET m == Min(Len(given), container.max_size - Len(call.c0)) IN
        /\ container.elems = call.c0 \o SubSeq(Numbers(given), 1, m)
        /\ (m = Len(given) => stream = <<>>)

\* the number of values the call pushed
Pushed == Len(container.elems) - Len(call.c0)

\* C11: when scan_list stops without error the leftover begins at the first
\* unit after the last value pushed: on an input of words with one space
\* between them the leftover is the words that were not pushed, and a unit
\* found where the separator was expected is the first unit of the leftover.
C11_ListLeftover ==
    (/\ call.name = "scan_list"
     /\ call.T = "signed"
     /\ err = OK
     /\ before = Render(given, <<" ">>)) =>
        /\ Pushed <= Len(given)
        /\ stream = Render(SubSeq(given, Pushed + 1, Len(given)), <<" ">>)

\* the call read ints from the whole input, whose first k - 1 words are texts
\* of ints the container has room for
UntilValues(k) ==
    /\ call.name = "scan_list_until"
    /\ call.T = "signed"
    /\ before = Join(given)
    /\ k >= 2
    /\ k <= Len(given)
    /\ \A i \in 1..(k - 1) : IsIntegerText(given[i], "signed")
    /\ Len(call.c0) + k - 1 <= container.max_size

\* the input after its k-th word
AfterWord(k) ==
    IF k < Len(given)
    THEN <<" ">> \o Join(SubSeq(given, k + 1, Len(given)))
    ELSE <<>>

\* C12: when scan_list_until meets the until unit where a separator was
\* expected it stops with ok, the container holds the values before it, and the
\* leftover begins at the unit after the until unit.
C12_UntilConsumed ==
    \A k \in 1..Len(given) :
        (UntilValues(k) /\ given[k] = <<call.until>>) =>
            /\ err = OK
            /\ container.elems = call.c0 \o Numbers(SubSeq(given, 1, k - 1))
            /\ stream = AfterWord(k)

\* the k-th word is a unit that is neither the until unit nor the separator and
\* starts no value, or is the second separator in a row
Unexpected(k) ==
    \/ given[k] = <<"x">>
    \/ /\ k >= 3
       /\ call.sep # NUL
       /\ given[k] = <<call.sep>>
       /\ given[k - 1] = <<call.sep>>

\* the words before the k-th are texts of ints, but for a separator that is the
\* last of them when the k-th is the second separator in a row
ValuesBefore(k) ==
    IF given[k] = <<"x">> THEN UntilValues(k)
    ELSE UntilValues(k - 1) /\ Len(call.c0) + k - 2 < container.max_size

\* C13: in scan_list_until a unit between values that is neither the until
\* unit nor the separator, or is a second separator in a row, and starts no
\* value, stops the call with ok and the values scanned so far.
C13_UnexpectedIsSoftStop ==
    \A k \in 1..Len(given) :
        (call.name = "scan_list_until" /\ Unexpected(k) /\ ValuesBefore(k)) =>
            /\ err = OK
            /\ container.elems =
                   call.c0 \o Numbers(SubSeq(given, 1,
                                IF given[k] = <<"x">> THEN k - 1 ELSE k - 2))

\* the delimiter is among the units of s
HasDelimiter(s, until) == \E i \in 1..Len(s) : s[i] = until

\* C14: on an input that holds the delimiter getline returns ok, the string is
\* the units before the first delimiter, whatever it held before, and the
\* leftover begins after that delimiter, for contiguous and other sources.
C14_LineBeforeDelimiter ==
    (/\ call.name = "getline"
     /\ HasDelimiter(before, call.until)) =>
        LET i == FirstAt(before, call.until, 1) IN
        /\ err = OK
        /\ outs = <<SpanVal(SubSeq(before, 1, i - 1))>>
        /\ stream = SubSeq(before, i + 1, Len(before))

\* getline on a source that is not contiguous read a line into a string that
\* held something, and units are left after the delimiter
C14_Witness ==
    /\ call.name = "getline"
    /\ call.T = "erased"
    /\ call.c0 # <<>>
    /\ HasDelimiter(before, call.until)
    /\ FirstAt(before, call.until, 1) > 1
    /\ err = OK
    /\ outs[1].s # <<>>
    /\ stream # <<>>

\* C15: on an input that is not empty and does not hold the delimiter getline
\* returns ok, the string is the whole input and the leftover is empty.
C15_LineWithoutDelimiter ==
    (/\ call.name = "getline"
     /\ before # <<>>
     /\ Readable(before)
     /\ ~HasDelimiter(before, call.until)) =>
        /\ err = OK
        /\ outs = <<SpanVal(before)>>
        /\ stream = <<>>

\* the second getline of a chain read the last segment of the input, which no
\* delimiter ends, from the leftover of a getline that succeeded
C15_Witness ==
    /\ call.name = "getline"
    /\ ncalls = 2
    /\ prev = OK
    /\ before # <<>>
    /\ ~HasDelimiter(before, call.until)
    /\ call.c0 # <<>>
    /\ err = OK
    /\ outs = <<SpanVal(before)>>
    /\ stream = <<>>

\* the bool scanner was called, with the default specifier, on a source that is
\* not empty and every unit of which can be read
BoolCalled ==
    /\ call.name = "bool"
    /\ before # <<>>
    /\ Readable(before)

\* C16: without the l flag the bool scanner accepts the inputs that begin with
\* '0' (false) or '1' (true) and consumes that one unit; any other first unit,
\* the first letter of truename or falsename too, gives invalid_scanned_value.
C16_BoolDigitsOnly ==
    BoolCalled =>
        IF before[1] \in {"0", "1"}
        THEN /\ err = OK
             /\ outs = <<BoolVal(before[1] = "1")>>
             /\ stream = Tail(before)
        ELSE err = invalid_scanned_value

\* s begins with the whole of name
BeginsWith(s, name) ==
    Len(name) <= Len(s) /\ SubSeq(s, 1, Len(name)) = name

\* C17: where names are accepted the bool scanner returns true exactly on an
\* input that begins with the whole truename and false exactly on one that
\* begins with the whole falsename, consuming the units of the name; a proper
\* prefix of a name is not accepted.
C17_BoolWholeName ==
    (BoolCalled /\ before[1] \notin {"0", "1"}) =>
        /\ (err = OK /\ outs = <<BoolVal(TRUE)>>) <=> BeginsWith(before, truename)
        /\ (err = OK /\ outs = <<BoolVal(FALSE)>>) <=> BeginsWith(before, falsename)
        /\ BeginsWith(before, truename) =>
               stream = SubSeq(before, Len(truename) + 1, Len(before))
        /\ BeginsWith(before, falsename) =>
               stream = SubSeq(before, Len(falsename) + 1, Len(before))

\* C18: when the bool scanner does not recognise a value it returns
\* invalid_scanned_value, assigns nothing and has put back every unit it read:
\* the source is as it was before the scanner ran.
C18_BoolFailurePutsBack ==
    (BoolCalled /\ err # OK) =>
        /\ err = invalid_scanned_value
        /\ outs = <<Unset>>
        /\ stream = before

\* C19: the span scanner reads at most span.size() units; when a read fails
\* after some units were read, those units have been put back in their order
\* and the span is unchanged: the source is as it was before the scanner ran.
C19_SpanFailureRestores ==
    (call.name = "span" /\ Readable(before)) =>
        /\ err = OK => Len(before) - Len(stream) <= call.n
        /\ err # OK => (stream = before /\ outs = <<Unset>>)

\* s is two runs of base-10 digits with one thousands separator between them
SeparatedDigits(s) ==
    LET i == FirstAt(s, thousands_separator, 1) IN
    /\ 1 < i
    /\ i < Len(s)
    /\ \A j \in 1..Len(s) : j # i => s[j] \in DecimalDigits

\* the units of s but for the one at i
Without(s, i) == SubSeq(s, 1, i - 1) \o SubSeq(s, i + 1, Len(s))

\* C20: the integer scanner skips the thousands separator between digits when
\* and only when the specifier has the flag ': with the flag the digits on both
\* sides of the separator make the value; without it the separator ends the
\* integer and stays in the leftover.
C20_ThousandsSeparatorFlag ==
    (/\ call.name = "integral"
     /\ call.body \in DecimalBodies \cup {"'"}
     /\ SeparatedDigits(before)
     /\ DigitsValue(Without(before, FirstAt(before, thousands_separator, 1)), 0)
            <= TMax(call.T)) =>
        LET i == FirstAt(before, thousands_separator, 1) IN
        /\ err = OK
        /\ IF call.body = "'"
           THEN /\ outs = <<IntVal(DigitsValue(Without(before, i), 0))>>
                /\ stream = <<>>
           ELSE /\ outs = <<IntVal(DigitsValue(SubSeq(before, 1, i - 1), 0))>>
                /\ stream = SubSeq(before, i, Len(before))

\* x is an exponent: e or E, an optional sign, digits
IsExponent(x) ==
    /\ Len(x) >= 2
    /\ x[1] \in {"e", "E"}
    /\ LET c == IF x[2] \in {"+", "-"} THEN 3 ELSE 2 IN
       /\ c <= Len(x)
       /\ \A i \in c..Len(x) : x[i] \in DecimalDigits

\* p is the text of a float: an optional sign, digits with at most one decimal
\* point, an optional exponent
IsNumber(p) ==
    /\ p # <<>>
    /\ LET a == IF p[1] \in {"+", "-"} THEN 2 ELSE 1 IN
       \E b \in a..Len(p) :
           /\ IsFloatText(SubSeq(p, a, b))
           /\ (b = Len(p) \/ IsExponent(SubSeq(p, b + 1, Len(p))))

\* the length of the longest prefix of s that is the text of a float
NumberLen(s) ==
    LET ks == { k \in 1..Len(s) : IsNumber(SubSeq(s, 1, k)) } IN
    IF ks = {} THEN 0 ELSE CHOOSE k \in ks : \A j \in ks : j <= k

\* C21: the float scanner consumes the longest prefix of the input that is an
\* optional sign, digits with at most one decimal point, and an optional
\* exponent; the unit after it, a second decimal point too, is not consumed.
C21_FloatLongestPrefix ==
    (/\ call.name = "floating"
     /\ Readable(before)
     /\ NumberLen(before) >= 1
     /\ NumberLen(before) < Len(before)) =>
        /\ err = OK
        /\ outs[1].set
        /\ stream = SubSeq(before, NumberLen(before) + 1, Len(before))

\* the type units the integer parse hook knows
IntegralTypes == {"}", "d", "x", "b", "o"}

CallStart ==
    CHOOSE i \in 1..Len(given) :
        /\ given[i] \in {"input", "prompt"}
        /\ i > 1 => given[i - 1] = "return"
        /\ \A j \in (i + 1)..Len(given) : j > 1 => given[j - 1] # "return"

\* what the call has done so far
CallLog == SubSeq(given, CallStart, Len(given))

\* C24: a call of input that has returned did its scan, then one sync, then
\* returned, whatever the scan returned; a call of prompt wrote the prompt
\* before that, hence before any unit was read.
C24_ScanThenSync ==
    (given # <<>> /\ LastStep = "return") =>
        CallLog = (IF call.name = "prompt" THEN <<"prompt", "put_stdout">>
                   ELSE <<>>) \o <<"input", "scan", "sync", "return">>

\* a call of prompt has returned after a scan that failed
C24_Witness ==
    /\ LastStep = "return"
    /\ call.name = "prompt"
    /\ err = invalid_scanned_value

\* the three reads of the chain were made, in their order, on a contiguous
\* source with units after its first space
ChainRead ==
    /\ Len(given) = 3
    /\ given[1].name = "read_until_space" /\ ~given[1].keep
    /\ given[2].name = "read_code_point"
    /\ given[3].name = "read_all_zero_copy"
    /\ call.T = "contiguous"
    /\ FirstAt(call.c0, " ", 1) < Len(call.c0)

\* C25: read_until_space without the final space returns the units before the
\* first space and leaves that space, read_code_point returns the space and
\* consumes it, read_all_zero_copy returns the rest: the three values make up
\* the source.
C25_ReadsChain ==
    ChainRead =>
        LET i == FirstAt(call.c0, " ", 1) IN
        /\ \A k \in 1..3 : given[k].err = OK
        /\ given[1].value = SubSeq(call.c0, 1, i - 1)
        /\ given[2].value = <<" ">>
        /\ given[3].value = SubSeq(call.c0, i + 1, Len(call.c0))
        /\ given[1].value \o given[2].value \o given[3].value = call.c0
        /\ stream = <<>>

\* the chain was read from a source with units on both sides of its space
C25_Witness ==
    /\ ChainRead
    /\ given[1].value = <<"1">>
    /\ given[3].value = <<"f", "f">>

\* C26: for an input that is an owned string the result holds the whole
\* string; its leftover begins at the offset prepared.size() - result.size(),
\* which lies within the string, and ends where the string ends.
C26_OwnedStringLeftover ==
    (call.name = "scan" /\ call.T = "string&&") =>
        /\ container.range = before
        /\ container.begin = Len(before) - Len(stream)
        /\ container.begin \in 0..Len(before)
        /\ get_range(container) = stream
        /\ container.begin + Len(get_range(container)) = Len(container.range)

\* a scan of an owned string consumed some of it and left some
C26_Witness ==
    /\ call.name = "scan"
    /\ call.T = "string&&"
    /\ container.begin > 0
    /\ container.begin < Len(container.range)

C28_PushWithinCapacity ==
    /\ Len(container.elems) <= container.max_size
    /\ At("push") => Len(container.elems) < container.max_size

\* a value is about to be pushed into the last free place of a container
C28_Witness ==
    /\ At("push")
    /\ Len(container.elems) = container.max_size - 1
    /\ call.c0 # <<>>

\* C29: an iteration of the outer loop that goes back to the head of the loop
\* has consumed at least one unit, and an iteration of the inner loop of
\* scan_list_until consumes one unit or leaves the loop.
C29_IterationsConsume ==
    [][/\ (~At("head") /\ ~At("idle") /\ given'[1] = "head")
           => Len(stream') < Len(before)
       /\ (At("between") /\ given'[1] = "between")
           => Len(stream') = Len(stream) - 1]_vars

\* the integer scanner was called on an input that begins with a sign
SignFirst ==
    /\ call.name = "integral"
    /\ call.body \in IntegralTypes
    /\ Readable(before)
    /\ before # <<>>
    /\ before[1] \in {"+", "-"}

\* C30: a sign alone, or a sign followed by a unit that is no digit of the
\* base, gives invalid_scanned_value and leaves the output unassigned; a '-'
\* for an unsigned type gives invalid_scanned_value.
C30_SignNeedsDigit ==
    SignFirst =>
        /\ (call.T = "unsigned" /\ before[1] = "-")
               => err = invalid_scanned_value
        /\ (Len(before) = 1
              \/ ~is_digit(before[2], IntegralParse(call.body).base, FALSE))
               => (err = invalid_scanned_value /\ outs = <<Unset>>)

====
